---- MODULE Spec2Model ----
(***************************************************************************)
(* Change detection of the two claims agents of the repository:           *)
(*   - ClassActionClaimsAgent (src/class_action_claims_agent.py), which    *)
(*     keeps a list of already-notified expired claims in its state file;  *)
(*   - ActionClaimsAgent / StateManager (src/action_claims_agent.py),      *)
(*     which keeps the claims of the last run and of the run before.       *)
(* Time is a counter of ticks, ticks_per_day of them to the day (one, but *)
(* in SpecInputs); every datetime.now() of one run reads the same tick.   *)
(* A datetime, its ISO-8601 string and None are three different *)
(* kinds of value, told apart by a tag.                                    *)
(* Spec, SpecSM, SpecFirstRun and SpecExpiring drive the methods of the    *)
(* agents as the tests and the demo do; SpecRun is run() after run() with  *)
(* a source that may raise, a delivery and a write that may fail;          *)
(* SpecDamaged is the load of a state file that is absent or damaged.      *)
(* SpecApi drives the methods of one of the two agents; SpecDetect and    *)
(* SpecInputs start from any snapshot and any list of claims or payouts.  *)
(***************************************************************************)
EXTENDS Integers, Sequences, FiniteSets, TLC

\* ---------------------------------------------------------------- bounds
MaxClaims == 2
MaxPayouts == 1
MaxTime == 2
MaxSMClaims == 1
MaxSMPayouts == 2
MaxDetectCalls == 2
MaxDetectIds == 3
MaxDetectLen == 3
MaxInputPayouts == 2
MaxTicksPerDay == 2

ClaimIds == 1..MaxClaims
PayoutIds == 1..MaxPayouts
SMClaimIds == 1..MaxSMClaims
SMPayoutIds == 1..MaxSMPayouts
Times == 0..MaxTime

\* expiring_window_days given to the constructor, in days
expiring_window_days == 1

\* ---------------------------------------------------------------- values
NoneV == [tag |-> "None", v |-> 0]
DT(t) == [tag |-> "datetime", v |-> t]
STR(t) == [tag |-> "str", v |-> t]

\* Python truthiness of None, a datetime or a non-empty string
Truthy(x) == x.tag /= "None"

\* datetime.isoformat(): a datetime to its string
isoformat(d) == STR(d.v)

\* datetime.fromisoformat(s): defined on strings, TypeError on anything else
fromisoformat_raises(s) == s.tag /= "str"
fromisoformat(s) == DT(s.v)

Deadlines == {NoneV} \cup {DT(t) : t \in Times}

Range(s) == {s[i] : i \in 1..Len(s)}

\* the claim ids of a list of claims or notifications, in the order of the list
IdSeq(claims) == [i \in 1..Len(claims) |-> claims[i].claim_id]

\* the sequences over S without repeated element, up to a permutation
RECURSIVE SeqOfSet(_)
SeqOfSet(S) ==
    IF S = {} THEN {<<>>}
    ELSE UNION {{<<x>> \o s : s \in SeqOfSet(S \ {x})} : x \in S}

VARIABLES
    now,               \* the tick datetime.now() reads
    ticks_per_day,     \* how many ticks of the clock make one day
    agent,             \* the program this process runs: "ca", "sm", or "both"
    ca_state_file,     \* content of ClassActionClaimsAgent.state_file
    ca_pc,             \* position of the class action agent in its run
    previous_state,    \* ClassActionClaimsAgent.previous_state
    current_claims,    \* ClassActionClaimsAgent.current_claims
    current_payouts,   \* ClassActionClaimsAgent.current_payouts
    notifications,     \* ClassActionClaimsAgent.notifications
    ca_error,          \* exception that ended the last call, "none" if it returned
    ca_expired,        \* what detect_expired_claims returned in this run
    ca_sent,           \* what became of the notifier's send in this run
    ca_saved,          \* what became of the write of save_current_state in this run
    ca_summary,        \* run() returned its summary
    ca_file_at_load,   \* history: the state file as load_previous_state found it
    hist_expiring,     \* history: per id, in how many runs it was returned as expiring
    hist_notified,     \* history: ids ever written to notified_expired_claims
    hist_expired,      \* history: per id, in how many runs it was returned as expired
    sm_state_file,     \* content of StateManager.state_file
    sm_pc,             \* position of the action claims agent in its run
    sm_state,          \* StateManager.state
    all_claims,        \* the claims fetched by ActionClaimsAgent.run
    changes,           \* what the first detect_changes of the run returned
    changes_again,     \* what the second detect_changes of the run returned
    detect_calls,      \* how many times detect_changes was called in the run
    sm_error,          \* exception that ended the last call, "none" if it returned
    sm_sent,           \* what became of the notification of this run
    sm_file_at_load,   \* history: the state file as load_state found it
    hist_sm_expired,   \* history: per id, in how many runs it was in expired_claims
    hist_only_runs     \* history: every save so far was the save of a run()

ca_vars == <<ca_state_file, ca_pc, previous_state, current_claims, current_payouts,
             notifications, ca_error, ca_expired, ca_sent, ca_saved, ca_summary,
             ca_file_at_load, hist_notified, hist_expired, hist_expiring>>

sm_vars == <<sm_state_file, sm_pc, sm_state, all_claims, changes, changes_again,
             detect_calls, sm_error, sm_sent, sm_file_at_load, hist_sm_expired,
             hist_only_runs>>

vars == <<now, ticks_per_day, agent, ca_vars, sm_vars>>

\* ============================================================ class action agent
\* --------------------------------------------------------------- Claim, Payout
CA_Claim(id, deadline) == [claim_id |-> id, filing_deadline |-> deadline]

\* a to_dict that leaves the filing deadline out
CA_Claim_to_dict_nodate(c) ==
    [claim_id |-> c.claim_id, filing_deadline |-> NoneV]

CA_Claim_to_dict(c) ==
    [claim_id |-> c.claim_id,
     filing_deadline |-> IF Truthy(c.filing_deadline)
                         THEN isoformat(c.filing_deadline) ELSE NoneV]

CA_Claim_from_dict(data) ==
    [claim_id |-> data.claim_id,
     filing_deadline |-> IF Truthy(data.filing_deadline)
                         THEN fromisoformat(data.filing_deadline) ELSE NoneV]

CA_is_expired(c, t) ==
    IF ~Truthy(c.filing_deadline) THEN FALSE
    ELSE t > c.filing_deadline.v

\* timedelta.days: the whole days of a difference of two datetimes, rounded down
timedelta_days(delta) == delta \div ticks_per_day

CA_is_expiring_soon(c, days, t) ==
    IF ~Truthy(c.filing_deadline) THEN FALSE
    ELSE LET days_until_deadline == timedelta_days(c.filing_deadline.v - t)
         IN  0 < days_until_deadline /\ days_until_deadline <= days

\* generate_mock_payouts gives every payout the claim it belongs to
PayoutClaim(p) == ((p - 1) % MaxClaims) + 1

CA_Payout(p, announcement, distribution) ==
    [payout_id |-> p, claim_id |-> PayoutClaim(p),
     announcement_date |-> announcement, distribution_date |-> distribution]

CA_Payout_to_dict(p) ==
    [payout_id |-> p.payout_id, claim_id |-> p.claim_id,
     announcement_date |-> isoformat(p.announcement_date),
     distribution_date |-> IF Truthy(p.distribution_date)
                           THEN isoformat(p.distribution_date) ELSE NoneV]

CA_Payout_from_dict(data) ==
    [payout_id |-> data.payout_id, claim_id |-> data.claim_id,
     announcement_date |-> fromisoformat(data.announcement_date),
     distribution_date |-> IF Truthy(data.distribution_date)
                           THEN fromisoformat(data.distribution_date) ELSE NoneV]

\* --------------------------------------------------------------- state file
NoDoc ==
    [last_run |-> NoneV, claims |-> <<>>, payouts |-> <<>>,
     notified_expired_claims |-> <<>>]

FileAbsent == [kind |-> "absent", doc |-> NoDoc]
FileJson(doc) == [kind |-> "json", doc |-> doc]

\* text that is no JSON document, as a write that stopped half-way leaves it
FileCorrupt == [kind |-> "corrupt", doc |-> NoDoc]

\* bytes that are no UTF-8 text
FileUndecodable == [kind |-> "undecodable", doc |-> NoDoc]

StateNone == [loaded |-> FALSE, doc |-> NoDoc]
StateOf(doc) == [loaded |-> TRUE, doc |-> doc]

Map(f(_), s) == [i \in 1..Len(s) |-> f(s[i])]

\* load_previous_state: the parsed document, or None when the file is absent or
\* json.load raises JSONDecodeError
load_previous_state(file) ==
    IF file.kind = "json" THEN StateOf(file.doc) ELSE StateNone

\* the loop of save_current_state that appends the newly notified expired ids
RECURSIVE AppendNotified(_, _)
AppendNotified(list, notifs) ==
    IF notifs = <<>> THEN list
    ELSE LET notif == Head(notifs)
         IN  IF notif.type = "expired_claim" /\ notif.claim_id \notin Range(list)
             THEN AppendNotified(Append(list, notif.claim_id), Tail(notifs))
             ELSE AppendNotified(list, Tail(notifs))

\* a save_current_state that lists the claim of every notification as notified
save_current_state_every(prev, claims, payouts, notifs, t) ==
    LET WithClaim(notif) == notif.type /= "new_payout"
    IN  [last_run |-> isoformat(DT(t)),
         claims |-> Map(CA_Claim_to_dict, claims),
         payouts |-> Map(CA_Payout_to_dict, payouts),
         notified_expired_claims |->
            (IF prev.loaded THEN prev.doc.notified_expired_claims ELSE <<>>)
            \o IdSeq(SelectSeq(notifs, WithClaim))]

\* a save_current_state that starts its notified list afresh in every run
save_current_state_fresh(prev, claims, payouts, notifs, t) ==
    [last_run |-> isoformat(DT(t)),
     claims |-> Map(CA_Claim_to_dict, claims),
     payouts |-> Map(CA_Payout_to_dict, payouts),
     notified_expired_claims |-> AppendNotified(<<>>, notifs)]

\* the state written by save_current_state
save_current_state(prev, claims, payouts, notifs, t) ==
    [last_run |-> isoformat(DT(t)),
     claims |-> Map(CA_Claim_to_dict, claims),
     payouts |-> Map(CA_Payout_to_dict, payouts),
     notified_expired_claims |->
        AppendNotified(IF prev.loaded THEN prev.doc.notified_expired_claims ELSE <<>>,
                       notifs)]

\* --------------------------------------------------------------- detection
PrevClaims(prev) == Map(CA_Claim_from_dict, prev.doc.claims)

\* next((c for c in prev_claims if c.claim_id == id), None): index of the first, 0 if none
FirstIndex(claims, id) ==
    IF \E i \in 1..Len(claims) : claims[i].claim_id = id
    THEN CHOOSE i \in 1..Len(claims) :
            /\ claims[i].claim_id = id
            /\ \A j \in 1..(i - 1) : claims[j].claim_id /= id
    ELSE 0

\* {claim.claim_id: claim for claim in claims}[id]: the last one wins
LastIndex(claims, id) ==
    CHOOSE i \in 1..Len(claims) :
        /\ claims[i].claim_id = id
        /\ \A j \in (i + 1)..Len(claims) : claims[j].claim_id /= id

ClaimIdsOf(claims) == {claims[i].claim_id : i \in 1..Len(claims)}

detect_expiring_claims(prev, claims, days, t) ==
    LET prev_claims == PrevClaims(prev)
        Newly(claim) ==
            IF prev.loaded
            THEN LET k == FirstIndex(prev_claims, claim.claim_id)
                 IN  k = 0 \/ ~CA_is_expiring_soon(prev_claims[k], days, t)
            ELSE TRUE
        Keep(claim) == CA_is_expiring_soon(claim, days, t) /\ Newly(claim)
    IN  SelectSeq(claims, Keep)

\* datetime.now() > prev_claim.filing_deadline is a TypeError on a None deadline;
\* it is evaluated when the claim is not notified yet and not prev_claim.is_expired()
detect_expired_claims_raises(prev, claims, t) ==
    /\ prev.loaded
    /\ \E i \in 1..Len(prev.doc.claims) :
          LET prev_claim == PrevClaims(prev)[i]
          IN  /\ prev_claim.claim_id \notin Range(prev.doc.notified_expired_claims)
              /\ ~CA_is_expired(prev_claim, t)
              /\ ~Truthy(prev_claim.filing_deadline)

\* detect_expired_claims without the skip of the ids already notified
detect_expired_claims_noskip(prev, claims, t) ==
    IF ~prev.loaded THEN <<>>
    ELSE
    LET prev_claims == PrevClaims(prev)
        current_ids == ClaimIdsOf(claims)
        prev_ids == ClaimIdsOf(prev_claims)
        FromPrev(prev_claim) ==
            \/ ~CA_is_expired(prev_claim, t) /\ t > prev_claim.filing_deadline.v
            \/ prev_claim.claim_id \notin current_ids /\ CA_is_expired(prev_claim, t)
        FromCurrent(claim) ==
            /\ claim.claim_id \in prev_ids
            /\ ~CA_is_expired(prev_claims[LastIndex(prev_claims, claim.claim_id)], t)
            /\ CA_is_expired(claim, t)
    IN  SelectSeq(prev_claims, FromPrev) \o SelectSeq(claims, FromCurrent)

\* detect_expired_claims without the case of the claim missing from the feed
detect_expired_claims_nomissing(prev, claims, t) ==
    IF ~prev.loaded THEN <<>>
    ELSE
    LET notified_expired == Range(prev.doc.notified_expired_claims)
        prev_claims == PrevClaims(prev)
        prev_ids == ClaimIdsOf(prev_claims)
        FromPrev(prev_claim) ==
            /\ prev_claim.claim_id \notin notified_expired
            /\ ~CA_is_expired(prev_claim, t) /\ t > prev_claim.filing_deadline.v
        FromCurrent(claim) ==
            /\ claim.claim_id \notin notified_expired
            /\ claim.claim_id \in prev_ids
            /\ ~CA_is_expired(prev_claims[LastIndex(prev_claims, claim.claim_id)], t)
            /\ CA_is_expired(claim, t)
    IN  SelectSeq(prev_claims, FromPrev) \o SelectSeq(claims, FromCurrent)

\* a detect_expired_claims that also returns the expired claims the snapshot lacks
detect_expired_claims_unknown(prev, claims, t) ==
    IF ~prev.loaded THEN <<>>
    ELSE
    LET notified_expired == Range(prev.doc.notified_expired_claims)
        prev_claims == PrevClaims(prev)
        current_ids == ClaimIdsOf(claims)
        prev_ids == ClaimIdsOf(prev_claims)
        FromPrev(prev_claim) ==
            /\ prev_claim.claim_id \notin notified_expired
            /\ \/ ~CA_is_expired(prev_claim, t) /\ t > prev_claim.filing_deadline.v
               \/ prev_claim.claim_id \notin current_ids /\ CA_is_expired(prev_claim, t)
        FromCurrent(claim) ==
            /\ claim.claim_id \notin notified_expired
            /\ CA_is_expired(claim, t)
            /\ \/ claim.claim_id \notin prev_ids
               \/ ~CA_is_expired(prev_claims[LastIndex(prev_claims, claim.claim_id)], t)
    IN  SelectSeq(prev_claims, FromPrev) \o SelectSeq(claims, FromCurrent)

detect_expired_claims(prev, claims, t) ==
    IF ~prev.loaded THEN <<>>
    ELSE
    LET notified_expired == Range(prev.doc.notified_expired_claims)
        prev_claims == PrevClaims(prev)
        current_ids == ClaimIdsOf(claims)
        prev_ids == ClaimIdsOf(prev_claims)
        FromPrev(prev_claim) ==
            /\ prev_claim.claim_id \notin notified_expired
            /\ \/ ~CA_is_expired(prev_claim, t) /\ t > prev_claim.filing_deadline.v
               \/ prev_claim.claim_id \notin current_ids /\ CA_is_expired(prev_claim, t)
        FromCurrent(claim) ==
            /\ claim.claim_id \notin notified_expired
            /\ claim.claim_id \in prev_ids
            /\ ~CA_is_expired(prev_claims[LastIndex(prev_claims, claim.claim_id)], t)
            /\ CA_is_expired(claim, t)
    IN  SelectSeq(prev_claims, FromPrev) \o SelectSeq(claims, FromCurrent)

\* a detect_new_payouts that reports nothing once the snapshot has a payout
detect_new_payouts_none(prev, payouts) ==
    IF ~prev.loaded THEN payouts
    ELSE LET IsNew(payout) == prev.doc.payouts = <<>>
         IN  SelectSeq(payouts, IsNew)

detect_new_payouts(prev, payouts) ==
    IF ~prev.loaded THEN payouts
    ELSE LET prev_payout_ids == {prev.doc.payouts[i].payout_id :
                                    i \in 1..Len(prev.doc.payouts)}
             IsNew(payout) == payout.payout_id \notin prev_payout_ids
         IN  SelectSeq(payouts, IsNew)

Notif(type, claim_id, payout_id) ==
    [type |-> type, claim_id |-> claim_id, payout_id |-> payout_id]

ExpiringNotif(claim) == Notif("expiring_claim", claim.claim_id, 0)
ExpiredNotif(claim) == Notif("expired_claim", claim.claim_id, 0)
PayoutNotif(payout) == Notif("new_payout", 0, payout.payout_id)

generate_notifications(prev, claims, payouts, days, t) ==
    Map(ExpiringNotif, detect_expiring_claims(prev, claims, days, t))
    \o Map(ExpiredNotif, detect_expired_claims(prev, claims, t))
    \o Map(PayoutNotif, detect_new_payouts(prev, payouts))

\* --------------------------------------------------------------- inputs
\* the lists of claims with distinct ids, in any order, with any deadline
ClaimLists ==
    UNION {UNION {{[i \in 1..Len(order) |-> CA_Claim(order[i], dl[order[i]])] :
                      dl \in [S -> Deadlines]} : order \in SeqOfSet(S)} :
              S \in SUBSET ClaimIds}

RECURSIVE SortedSeq(_)
SortedSeq(S) ==
    IF S = {} THEN <<>>
    ELSE LET m == CHOOSE x \in S : \A y \in S : x <= y
         IN  <<m>> \o SortedSeq(S \ {m})

\* generate_mock_payouts: every payout announced and with a date of distribution
MockPayout(p) == CA_Payout(p, DT(0), DT(MaxTime))

PayoutLists == {Map(MockPayout, SortedSeq(S)) : S \in SUBSET PayoutIds}

\* --------------------------------------------------------------- actions
Bump(count, ids) == [i \in ClaimIds |-> IF i \in ids /\ count[i] < 2
                                        THEN count[i] + 1 ELSE count[i]]

\* fetch_active_claims: the claims of the source that are not expired
\* a fetch_active_claims that returns every claim of the source
fetch_active_claims_all(claims, t) == claims

fetch_active_claims(claims, t) ==
    LET Active(claim) == ~CA_is_expired(claim, t)
    IN  SelectSeq(claims, Active)

\* a new agent object on the state file, then load_previous_state()
CA_Load ==
    /\ ca_pc = "idle"
    /\ ca_state_file.kind /= "undecodable"
    /\ previous_state' = load_previous_state(ca_state_file)
    /\ current_claims' = <<>>
    /\ current_payouts' = <<>>
    /\ notifications' = <<>>
    /\ ca_expired' = <<>>
    /\ ca_error' = "none"
    /\ ca_sent' = "none"
    /\ ca_saved' = "none"
    /\ ca_summary' = FALSE
    /\ ca_file_at_load' = ca_state_file
    /\ ca_pc' = "loaded"
    /\ UNCHANGED <<sm_vars, agent, ticks_per_day, now, ca_state_file, hist_notified, hist_expired,
                   hist_expiring>>

\* load_previous_state() on a file that is no UTF-8 text: open(..., encoding='utf-8')
\* raises UnicodeDecodeError, which is neither a JSONDecodeError nor an IOError
CA_LoadRaises ==
    /\ ca_pc = "idle"
    /\ ca_state_file.kind = "undecodable"
    /\ previous_state' = StateNone
    /\ current_claims' = <<>>
    /\ current_payouts' = <<>>
    /\ notifications' = <<>>
    /\ ca_expired' = <<>>
    /\ ca_error' = "UnicodeDecodeError"
    /\ ca_sent' = "none"
    /\ ca_saved' = "none"
    /\ ca_summary' = FALSE
    /\ ca_file_at_load' = ca_state_file
    /\ ca_pc' = "idle"
    /\ UNCHANGED <<sm_vars, agent, ticks_per_day, now, ca_state_file, hist_notified, hist_expired,
                   hist_expiring>>

\* agent.current_claims = [...]; agent.current_payouts = [...]
CA_SetCurrent ==
    /\ ca_pc = "loaded"
    /\ \E claims \in ClaimLists, payouts \in PayoutLists :
          /\ current_claims' = claims
          /\ current_payouts' = payouts
    /\ ca_pc' = "fetched"
    /\ UNCHANGED <<sm_vars, agent, ticks_per_day, now, ca_state_file, previous_state, notifications,
                   ca_error, ca_expired, ca_sent, ca_saved, ca_summary, ca_file_at_load,
                   hist_notified, hist_expired, hist_expiring>>

\* run(): fetch_active_claims() and fetch_recent_payouts() return
CA_Fetch ==
    /\ ca_pc = "loaded"
    /\ \E claims \in ClaimLists, payouts \in PayoutLists :
          /\ current_claims' = fetch_active_claims(claims, now)
          /\ current_payouts' = payouts
    /\ ca_pc' = "fetched"
    /\ UNCHANGED <<sm_vars, agent, ticks_per_day, now, ca_state_file, previous_state, notifications,
                   ca_error, ca_expired, ca_sent, ca_saved, ca_summary, ca_file_at_load,
                   hist_notified, hist_expired, hist_expiring>>

\* a run() that saves what it holds when the source raises
CA_FetchRaises_saving ==
    /\ ca_pc = "loaded"
    /\ ca_error' = "fetch raised"
    /\ ca_state_file' = FileJson(save_current_state(previous_state, current_claims,
                                     current_payouts, notifications, now))
    /\ ca_pc' = "idle"
    /\ UNCHANGED <<sm_vars, agent, ticks_per_day, now, previous_state, current_claims,
                   current_payouts, notifications, ca_expired, ca_sent, ca_saved,
                   ca_summary, ca_file_at_load, hist_notified, hist_expired,
                   hist_expiring>>

\* run(): the source of fetch_active_claims() raises, run() ends with the exception
CA_FetchRaises ==
    /\ ca_pc = "loaded"
    /\ ca_error' = "fetch raised"
    /\ ca_pc' = "idle"
    /\ UNCHANGED <<sm_vars, agent, ticks_per_day, now, ca_state_file, previous_state, current_claims,
                   current_payouts, notifications, ca_expired, ca_sent, ca_saved,
                   ca_summary, ca_file_at_load, hist_notified, hist_expired,
                   hist_expiring>>

\* generate_notifications() returns
CA_GenerateReturns ==
    /\ ca_pc = "fetched"
    /\ ~detect_expired_claims_raises(previous_state, current_claims, now)
    /\ notifications' = generate_notifications(previous_state, current_claims,
                            current_payouts, expiring_window_days, now)
    /\ ca_expired' = detect_expired_claims(previous_state, current_claims, now)
    /\ hist_expired' = Bump(hist_expired, ClaimIdsOf(ca_expired'))
    /\ ca_pc' = "generated"
    /\ UNCHANGED <<sm_vars, agent, ticks_per_day, now, ca_state_file, previous_state, current_claims,
                   current_payouts, ca_error, ca_sent, ca_saved, ca_summary,
                   ca_file_at_load, hist_notified>>

\* generate_notifications() returns; the expiring claims are not counted
CA_Generate ==
    /\ CA_GenerateReturns
    /\ UNCHANGED hist_expiring

\* generate_notifications() returns; the claims it returned as expiring are counted
CA_GenerateCounted ==
    /\ CA_GenerateReturns
    /\ hist_expiring' =
          Bump(hist_expiring,
               ClaimIdsOf(detect_expiring_claims(previous_state, current_claims,
                                                 expiring_window_days, now)))

\* generate_notifications() raises the TypeError of detect_expired_claims:
\* the run ends there, nothing is saved
CA_GenerateRaises ==
    /\ ca_pc = "fetched"
    /\ detect_expired_claims_raises(previous_state, current_claims, now)
    /\ ca_error' = "TypeError: datetime > NoneType"
    /\ ca_pc' = "idle"
    /\ UNCHANGED <<sm_vars, agent, ticks_per_day, now, ca_state_file, previous_state, current_claims,
                   current_payouts, notifications, ca_expired, ca_sent, ca_saved,
                   ca_summary, ca_file_at_load, hist_notified, hist_expired,
                   hist_expiring>>

\* run(): if notifications: self.notifier.send(...); the notifier returns True, or
\* False when the delivery failed, and run() does not look at the result
CA_Send ==
    /\ ca_pc = "generated"
    /\ IF notifications = <<>> THEN ca_sent' = "skipped"
       ELSE ca_sent' \in {"ok", "failed"}
    /\ ca_pc' = "sent"
    /\ UNCHANGED <<sm_vars, agent, ticks_per_day, now, ca_state_file, previous_state, current_claims,
                   current_payouts, notifications, ca_error, ca_expired, ca_saved,
                   ca_summary, ca_file_at_load, hist_notified, hist_expired,
                   hist_expiring>>

\* previous_state after save_current_state: the loop appends to the very list that
\* previous_state holds
AliasedState(prev, doc) ==
    IF prev.loaded
    THEN [prev EXCEPT !.doc.notified_expired_claims = doc.notified_expired_claims]
    ELSE prev

\* save_current_state(), after generate_notifications or without it; the write
\* succeeds; called by run(), run() then returns its summary
CA_Save ==
    /\ ca_pc \in {"fetched", "generated", "sent"}
    /\ LET doc == save_current_state(previous_state, current_claims,
                                     current_payouts, notifications, now)
       IN  /\ ca_state_file' = FileJson(doc)
           /\ previous_state' = AliasedState(previous_state, doc)
           /\ hist_notified' = hist_notified \cup Range(doc.notified_expired_claims)
    /\ ca_saved' = "ok"
    /\ ca_summary' = (ca_pc = "sent")
    /\ ca_pc' = "idle"
    /\ UNCHANGED <<sm_vars, agent, ticks_per_day, now, current_claims, current_payouts,
                   notifications, ca_error, ca_expired, ca_sent, ca_file_at_load,
                   hist_expired, hist_expiring>>

\* save_current_state() when the write raises IOError: open() failed and the file is
\* as it was, or the write stopped after open() had truncated the file; the except
\* clause prints the error and save_current_state returns
CA_SaveFails ==
    /\ ca_pc \in {"fetched", "generated", "sent"}
    /\ LET doc == save_current_state(previous_state, current_claims,
                                     current_payouts, notifications, now)
       IN  previous_state' = AliasedState(previous_state, doc)
    /\ ca_state_file' \in {ca_state_file, FileCorrupt}
    /\ ca_saved' = "failed"
    /\ ca_summary' = (ca_pc = "sent")
    /\ ca_pc' = "idle"
    /\ UNCHANGED <<sm_vars, agent, ticks_per_day, now, current_claims, current_payouts,
                   notifications, ca_error, ca_expired, ca_sent, ca_file_at_load,
                   hist_notified, hist_expired, hist_expiring>>

\* ============================================================ action claims agent
\* --------------------------------------------------------------- Payout, Claim
SM_Payout(p, t) == [cls |-> "Payout", payout_id |-> p, announced_date |-> DT(t)]

SM_Payout_to_dict(p) ==
    [cls |-> "dict", payout_id |-> p.payout_id,
     announced_date |-> IF Truthy(p.announced_date)
                        THEN isoformat(p.announced_date) ELSE p.announced_date]

\* Payout.from_dict(data): 'announced_date' in data needs a dict, fromisoformat a string
SM_Payout_from_dict_raises(data) ==
    \/ data.cls /= "dict"
    \/ Truthy(data.announced_date) /\ fromisoformat_raises(data.announced_date)

\* what Payout.from_dict leaves in data: the parsed date is stored back into the dict
SM_Payout_from_dict_data(data) ==
    IF ~SM_Payout_from_dict_raises(data) /\ Truthy(data.announced_date)
    THEN [data EXCEPT !.announced_date = fromisoformat(@)]
    ELSE data

SM_Payout_from_dict(data) ==
    [cls |-> "Payout", payout_id |-> data.payout_id,
     announced_date |-> SM_Payout_from_dict_data(data).announced_date]

SM_Claim(id, expiration, t, payout_ids) ==
    [claim_id |-> id, expiration_date |-> expiration, created_date |-> DT(t),
     payouts |-> [i \in 1..Len(payout_ids) |-> SM_Payout(payout_ids[i], t)]]

SM_is_expired(c, t) ==
    IF ~Truthy(c.expiration_date) THEN FALSE
    ELSE t > c.expiration_date.v

SM_Claim_to_dict(c) ==
    [claim_id |-> c.claim_id,
     expiration_date |-> IF Truthy(c.expiration_date)
                         THEN isoformat(c.expiration_date) ELSE c.expiration_date,
     created_date |-> isoformat(c.created_date),
     payouts |-> Map(SM_Payout_to_dict, c.payouts)]

\* the payout dicts of data['payouts'] after the list comprehension ran up to its
\* first failure: the dicts before it hold parsed dates
PayoutsParsedData(payouts) ==
    [i \in 1..Len(payouts) |->
        IF \A j \in 1..i : ~SM_Payout_from_dict_raises(payouts[j])
        THEN SM_Payout_from_dict_data(payouts[i]) ELSE payouts[i]]

\* Claim.from_dict(data): the Claim, whether it raised, and data as the call left it;
\* every parsed value is assigned back into data before cls(**data)
SM_Claim_from_dict(data) ==
    LET exp_raises == Truthy(data.expiration_date)
                      /\ fromisoformat_raises(data.expiration_date)
        d1 == IF Truthy(data.expiration_date) /\ ~exp_raises
              THEN [data EXCEPT !.expiration_date = fromisoformat(@)] ELSE data
        created_raises == fromisoformat_raises(d1.created_date)
        d2 == IF created_raises THEN d1
              ELSE [d1 EXCEPT !.created_date = fromisoformat(@)]
        payouts_raise == \E i \in 1..Len(d2.payouts) :
                            SM_Payout_from_dict_raises(d2.payouts[i])
        d3 == [d2 EXCEPT !.payouts = IF payouts_raise THEN PayoutsParsedData(@)
                                      ELSE Map(SM_Payout_from_dict, @)]
    IN  IF exp_raises THEN [raises |-> TRUE, claim |-> data, data |-> data]
        ELSE IF created_raises THEN [raises |-> TRUE, claim |-> d1, data |-> d1]
        ELSE IF payouts_raise THEN [raises |-> TRUE, claim |-> d3, data |-> d3]
        ELSE [raises |-> FALSE, claim |-> d3, data |-> d3]

\* --------------------------------------------------------------- StateManager
EmptyState == [last_run |-> NoneV, claims |-> <<>>, previous_claims |-> <<>>]

SMFileAbsent == [kind |-> "absent", doc |-> EmptyState]
SMFileCorrupt == [kind |-> "corrupt", doc |-> EmptyState]
SMFileUndecodable == [kind |-> "undecodable", doc |-> EmptyState]
SMFileJson(doc) == [kind |-> "json", doc |-> doc]

\* load_state: the parsed document, or the empty state when the file is absent or
\* json.load raises JSONDecodeError
load_state(file) == IF file.kind = "json" THEN file.doc ELSE EmptyState

\* json.dump: a datetime or a Payout object is not JSON serializable
JsonValue(x) == x.tag /= "datetime"

JsonClaim(data) ==
    /\ JsonValue(data.expiration_date)
    /\ JsonValue(data.created_date)
    /\ \A i \in 1..Len(data.payouts) :
          data.payouts[i].cls = "dict" /\ JsonValue(data.payouts[i].announced_date)

JsonSerializable(state) ==
    /\ \A i \in 1..Len(state.claims) : JsonClaim(state.claims[i])
    /\ \A i \in 1..Len(state.previous_claims) : JsonClaim(state.previous_claims[i])

\* a save_state that keeps the stored claims the new list does not have
save_state_merge(state, claims, t) ==
    LET Dropped(data) == data.claim_id \notin ClaimIdsOf(claims)
    IN  [last_run |-> isoformat(DT(t)),
         claims |-> Map(SM_Claim_to_dict, claims) \o SelectSeq(state.claims, Dropped),
         previous_claims |-> state.claims]

\* the new_state of save_state
save_state(state, claims, t) ==
    [last_run |-> isoformat(DT(t)),
     claims |-> Map(SM_Claim_to_dict, claims),
     previous_claims |-> state.claims]

\* get_previous_claims: the dict comprehension over state['claims'], in order, up to
\* the first from_dict that raises; data holds the stored dicts as the calls left them
RECURSIVE get_previous_claims(_)
get_previous_claims(dicts) ==
    IF dicts = <<>> THEN [raises |-> FALSE, claims |-> <<>>, data |-> <<>>]
    ELSE LET r == SM_Claim_from_dict(Head(dicts))
         IN  IF r.raises
             THEN [raises |-> TRUE, claims |-> <<>>, data |-> <<r.data>> \o Tail(dicts)]
             ELSE LET rest == get_previous_claims(Tail(dicts))
                  IN  [raises |-> rest.raises,
                       claims |-> IF rest.raises THEN <<>> ELSE <<r.claim>> \o rest.claims,
                       data |-> <<r.data>> \o rest.data]

NoChanges == [new_claims |-> <<>>, expired_claims |-> <<>>, new_payouts |-> <<>>]

\* the new payouts of one claim found in both snapshots
NewPayoutsOf(previous_claim, current_claim) ==
    LET previous_payout_ids == {previous_claim.payouts[i].payout_id :
                                   i \in 1..Len(previous_claim.payouts)}
        IsNew(payout) == payout.payout_id \notin previous_payout_ids
        Pair(payout) == [claim |-> current_claim, payout |-> SM_Payout_to_dict(payout)]
    IN  Map(Pair, SelectSeq(current_claim.payouts, IsNew))

\* the second loop of detect_changes, over the previous claims in order
RECURSIVE NewPayoutsLoop(_, _)
NewPayoutsLoop(previous_claims, current) ==
    IF previous_claims = <<>> THEN <<>>
    ELSE LET previous_claim == Head(previous_claims)
             present == previous_claim.claim_id \in ClaimIdsOf(current)
         IN  (IF present
              THEN NewPayoutsOf(previous_claim,
                                current[LastIndex(current, previous_claim.claim_id)])
              ELSE <<>>)
             \o NewPayoutsLoop(Tail(previous_claims), current)

\* detect_changes_report that takes only the claims still running as new
detect_changes_report_active(previous_claims, current, t) ==
    LET previous_ids == ClaimIdsOf(previous_claims)
        current_ids == ClaimIdsOf(current)
        IsNewClaim(claim) == claim.claim_id \notin previous_ids /\ ~SM_is_expired(claim, t)
        NewlyExpired(previous_claim) ==
            /\ previous_claim.claim_id \in current_ids
            /\ ~SM_is_expired(previous_claim, t)
            /\ SM_is_expired(current[LastIndex(current, previous_claim.claim_id)], t)
        CurrentOf(previous_claim) ==
            current[LastIndex(current, previous_claim.claim_id)]
    IN  [new_claims |-> SelectSeq(current, IsNewClaim),
         expired_claims |-> Map(CurrentOf, SelectSeq(previous_claims, NewlyExpired)),
         new_payouts |-> NewPayoutsLoop(previous_claims, current)]

\* detect_changes_report that walks the current list itself, so that an id that
\* comes twice is reported twice
detect_changes_report_list(previous_claims, current, t) ==
    LET previous_ids == ClaimIdsOf(previous_claims)
        current_ids == ClaimIdsOf(current)
        IsNewClaim(claim) == claim.claim_id \notin previous_ids
        NewlyExpired(previous_claim) ==
            /\ previous_claim.claim_id \in current_ids
            /\ ~SM_is_expired(previous_claim, t)
            /\ SM_is_expired(current[LastIndex(current, previous_claim.claim_id)], t)
        CurrentOf(previous_claim) ==
            current[LastIndex(current, previous_claim.claim_id)]
    IN  [new_claims |-> SelectSeq(current, IsNewClaim),
         expired_claims |-> Map(CurrentOf, SelectSeq(previous_claims, NewlyExpired)),
         new_payouts |-> NewPayoutsLoop(previous_claims, current)]

detect_changes_report(previous_claims, current, t) ==
    LET previous_ids == ClaimIdsOf(previous_claims)
        current_ids == ClaimIdsOf(current)
        \* current_claims_dict keeps one claim per id, at its first position
        InDict(i) == \A j \in 1..(i - 1) : current[j].claim_id /= current[i].claim_id
        current_claims_dict ==
            LET idx == SelectSeq([i \in 1..Len(current) |-> i], InDict)
            IN  [k \in 1..Len(idx) |->
                    current[LastIndex(current, current[idx[k]].claim_id)]]
        IsNewClaim(claim) == claim.claim_id \notin previous_ids
        NewlyExpired(previous_claim) ==
            /\ previous_claim.claim_id \in current_ids
            /\ ~SM_is_expired(previous_claim, t)
            /\ SM_is_expired(current[LastIndex(current, previous_claim.claim_id)], t)
        CurrentOf(previous_claim) ==
            current[LastIndex(current, previous_claim.claim_id)]
    IN  [new_claims |-> SelectSeq(current_claims_dict, IsNewClaim),
         expired_claims |-> Map(CurrentOf, SelectSeq(previous_claims, NewlyExpired)),
         new_payouts |-> NewPayoutsLoop(previous_claims, current)]

\* detect_changes: the report, whether it raised, and state['claims'] as it left them
detect_changes(state, current, t) ==
    LET g == get_previous_claims(state.claims)
    IN  [raises |-> g.raises,
         state |-> [state EXCEPT !.claims = g.data],
         changes |-> IF g.raises THEN NoChanges
                     ELSE detect_changes_report(g.claims, current, t)]

\* --------------------------------------------------------------- inputs
SMPayoutLists == {SortedSeq(S) : S \in SUBSET SMPayoutIds}

SMClaimLists(t) ==
    UNION {UNION {{[i \in 1..Len(order) |->
                       SM_Claim(order[i], dl[order[i]], t, po[order[i]])] :
                      dl \in [S -> Deadlines], po \in [S -> SMPayoutLists]} :
                  order \in SeqOfSet(S)} :
              S \in SUBSET SMClaimIds}

\* --------------------------------------------------------------- actions
SMBump(count, ids) == [i \in SMClaimIds |-> IF i \in ids /\ count[i] < 2
                                            THEN count[i] + 1 ELSE count[i]]

\* EmailNotifier.format_changes_notification: (None, None) without an expired
\* claim and without a new payout, else the subject that carries their number
format_changes_notification(ch) ==
    LET total_changes == Len(ch.expired_claims) + Len(ch.new_payouts)
    IN  [subject |-> IF total_changes = 0 THEN NoneV ELSE STR(total_changes)]

\* a new agent object on the state file, then load_state()
SM_Load ==
    /\ sm_pc \in {"idle", "done"}
    /\ sm_state_file.kind /= "undecodable"
    /\ sm_state' = load_state(sm_state_file)
    /\ all_claims' = <<>>
    /\ changes' = NoChanges
    /\ changes_again' = NoChanges
    /\ detect_calls' = 0
    /\ sm_error' = "none"
    /\ sm_sent' = "none"
    /\ sm_file_at_load' = sm_state_file
    /\ sm_pc' = "loaded"
    /\ UNCHANGED <<ca_vars, agent, ticks_per_day, now, sm_state_file, hist_sm_expired, hist_only_runs>>

\* load_state() on a file that is no text in the encoding of open(): the
\* UnicodeDecodeError is neither a JSONDecodeError nor an IOError; state stays {}
SM_LoadRaises ==
    /\ sm_pc \in {"idle", "done"}
    /\ sm_state_file.kind = "undecodable"
    /\ sm_state' = EmptyState
    /\ all_claims' = <<>>
    /\ changes' = NoChanges
    /\ changes_again' = NoChanges
    /\ detect_calls' = 0
    /\ sm_error' = "UnicodeDecodeError"
    /\ sm_sent' = "none"
    /\ sm_file_at_load' = sm_state_file
    /\ sm_pc' = "done"
    /\ UNCHANGED <<ca_vars, agent, ticks_per_day, now, sm_state_file, hist_sm_expired, hist_only_runs>>

\* data_client.fetch_claims() returns
SM_Fetch ==
    /\ sm_pc = "loaded"
    /\ all_claims' \in SMClaimLists(now)
    /\ sm_pc' = "fetched"
    /\ UNCHANGED <<ca_vars, agent, ticks_per_day, now, sm_state_file, sm_state, changes, changes_again,
                   detect_calls, sm_error, sm_sent, sm_file_at_load, hist_sm_expired,
                   hist_only_runs>>

\* data_client.fetch_claims() raises, run() ends with the exception
SM_FetchRaises ==
    /\ sm_pc = "loaded"
    /\ sm_error' = "fetch raised"
    /\ sm_pc' = "done"
    /\ UNCHANGED <<ca_vars, agent, ticks_per_day, now, sm_state_file, sm_state, all_claims, changes,
                   changes_again, detect_calls, sm_sent, sm_file_at_load,
                   hist_sm_expired, hist_only_runs>>

\* detect_changes(all_claims): the call of run(), or one more call by the caller
SM_DetectChanges ==
    /\ sm_pc \in {"fetched", "detected"}
    /\ detect_calls < MaxDetectCalls
    /\ LET r == detect_changes(sm_state, all_claims, now)
       IN  /\ sm_state' = r.state
           /\ sm_error' = IF r.raises THEN "TypeError: fromisoformat" ELSE "none"
           /\ sm_pc' = IF r.raises THEN "done" ELSE "detected"
           /\ changes' = IF detect_calls = 0 THEN r.changes ELSE changes
           /\ changes_again' = IF detect_calls = 0 THEN changes_again ELSE r.changes
           /\ hist_sm_expired' =
                 IF detect_calls = 0
                 THEN SMBump(hist_sm_expired, ClaimIdsOf(r.changes.expired_claims))
                 ELSE hist_sm_expired
    /\ detect_calls' = detect_calls + 1
    /\ hist_only_runs' = (hist_only_runs /\ detect_calls = 0)
    /\ UNCHANGED <<ca_vars, agent, ticks_per_day, now, sm_state_file, all_claims, sm_sent,
                   sm_file_at_load>>

\* run(): with an expired claim or a new payout in the report the notifier is
\* called (EmailNotifier: when format_changes_notification gave a subject) and
\* returns True, or False when the delivery failed; else nothing is sent
SM_Notify ==
    /\ sm_pc = "detected"
    /\ detect_calls = 1
    /\ LET expired_count == Len(changes.expired_claims)
           payout_count == Len(changes.new_payouts)
       IN  IF expired_count > 0 \/ payout_count > 0
           THEN sm_sent' \in {"ok", "failed"}
           ELSE sm_sent' = "skipped"
    /\ sm_pc' = "notified"
    /\ UNCHANGED <<ca_vars, agent, ticks_per_day, now, sm_state_file, sm_state, all_claims, changes,
                   changes_again, detect_calls, sm_error, sm_file_at_load,
                   hist_sm_expired, hist_only_runs>>

\* save_state(all_claims): the state is replaced, then the file is opened for
\* writing (truncated) and json.dump writes until it meets a value it cannot encode
SM_Save ==
    /\ sm_pc \in {"fetched", "detected", "notified"}
    /\ LET new_state == save_state(sm_state, all_claims, now)
       IN  /\ sm_state' = new_state
           /\ sm_state_file' = IF JsonSerializable(new_state)
                               THEN SMFileJson(new_state) ELSE SMFileCorrupt
           /\ sm_error' = IF JsonSerializable(new_state) THEN "none"
                          ELSE "TypeError: not JSON serializable"
    /\ sm_pc' = "done"
    /\ hist_only_runs' = (hist_only_runs /\ detect_calls = 1)
    /\ UNCHANGED <<ca_vars, agent, ticks_per_day, now, all_claims, changes, changes_again, detect_calls,
                   sm_sent, sm_file_at_load, hist_sm_expired>>

\* save_state(all_claims) when the write raises IOError: the state is replaced, then
\* mkdir or open() fails and the file is as it was, or the write stops after open()
\* had truncated the file; the exception leaves save_state and run()
SM_SaveFails ==
    /\ sm_pc \in {"fetched", "detected", "notified"}
    /\ sm_state' = save_state(sm_state, all_claims, now)
    /\ sm_state_file' \in {sm_state_file, SMFileCorrupt}
    /\ sm_error' = "IOError"
    /\ sm_pc' = "done"
    /\ hist_only_runs' = (hist_only_runs /\ detect_calls = 1)
    /\ UNCHANGED <<ca_vars, agent, ticks_per_day, now, all_claims, changes, changes_again, detect_calls,
                   sm_sent, sm_file_at_load, hist_sm_expired>>

SM_Init ==
    /\ sm_pc = "idle"
    /\ sm_state = EmptyState
    /\ all_claims = <<>>
    /\ changes = NoChanges
    /\ changes_again = NoChanges
    /\ detect_calls = 0
    /\ sm_error = "none"
    /\ sm_sent = "none"
    /\ hist_sm_expired = [i \in SMClaimIds |-> 0]
    /\ hist_only_runs = TRUE

\* time passes between two runs; a run is over within the tick it started
Tick ==
    /\ ca_pc = "idle"
    /\ sm_pc \in {"idle", "done"}
    /\ now < MaxTime
    /\ now' = now + 1
    /\ UNCHANGED <<agent, ticks_per_day, ca_vars, sm_vars>>

CA_Init ==
    /\ ca_pc = "idle"
    /\ previous_state = StateNone
    /\ current_claims = <<>>
    /\ current_payouts = <<>>
    /\ notifications = <<>>
    /\ ca_error = "none"
    /\ ca_expired = <<>>
    /\ ca_sent = "none"
    /\ ca_saved = "none"
    /\ ca_summary = FALSE
    /\ hist_notified = {}
    /\ hist_expired = [i \in ClaimIds |-> 0]
    /\ hist_expiring = [i \in ClaimIds |-> 0]

\* no state file yet
NoFiles ==
    /\ ca_state_file = FileAbsent
    /\ ca_file_at_load = FileAbsent
    /\ sm_state_file = SMFileAbsent
    /\ sm_file_at_load = SMFileAbsent

Init ==
    /\ now = 0
    /\ ticks_per_day = 1
    /\ agent = "both"
    /\ NoFiles
    /\ CA_Init
    /\ SM_Init

Next ==
    \/ Tick
    \/ CA_Load
    \/ CA_SetCurrent
    \/ CA_Generate
    \/ CA_GenerateRaises
    \/ CA_Save

Spec == Init /\ [][Next]_vars

SMNext ==
    \/ Tick
    \/ SM_Load
    \/ SM_Fetch
    \/ SM_DetectChanges
    \/ SM_Save

SpecSM == Init /\ [][SMNext]_vars

\* the class action agent, with the count of the runs that returned a claim as expiring
ExpiringNext ==
    \/ Tick
    \/ CA_Load
    \/ CA_SetCurrent
    \/ CA_GenerateCounted
    \/ CA_GenerateRaises
    \/ CA_Save

SpecExpiring == Init /\ [][ExpiringNext]_vars

\* the first run of each agent on a state file that does not exist: nothing is saved
FirstRunNext ==
    \/ Tick
    \/ CA_Load
    \/ CA_SetCurrent
    \/ CA_Generate
    \/ SM_Load
    \/ SM_Fetch
    \/ SM_DetectChanges

SpecFirstRun == Init /\ [][FirstRunNext]_vars

\* ------------------------------------------------------------ run() of either agent
\* one process runs one of the two programs, run() after run(), on its state file;
\* the source of the claims may raise, the delivery and the write may fail
InitRun ==
    /\ now = 0
    /\ ticks_per_day = 1
    /\ agent \in {"ca", "sm"}
    /\ NoFiles
    /\ CA_Init
    /\ SM_Init

\* ClassActionClaimsAgent.run()
CA_Run ==
    \/ CA_Load
    \/ CA_Fetch
    \/ CA_FetchRaises
    \/ CA_Generate
    \/ CA_GenerateRaises
    \/ CA_Send
    \/ ca_pc = "sent" /\ CA_Save
    \/ ca_pc = "sent" /\ CA_SaveFails

\* ActionClaimsAgent.run()
SM_Run ==
    \/ SM_Load
    \/ SM_Fetch
    \/ SM_FetchRaises
    \/ detect_calls = 0 /\ SM_DetectChanges
    \/ SM_Notify
    \/ sm_pc = "notified" /\ SM_Save
    \/ sm_pc = "notified" /\ SM_SaveFails

RunNext ==
    \/ Tick
    \/ agent = "ca" /\ CA_Run
    \/ agent = "sm" /\ SM_Run

SpecRun == InitRun /\ [][RunNext]_vars

\* ------------------------------------------------------------ damaged state files
\* the first load of either agent on a state file that is absent, that is no JSON
\* document, or that is no text at all
DamagedFiles ==
    /\ ca_state_file \in {FileAbsent, FileCorrupt, FileUndecodable}
    /\ ca_file_at_load = FileAbsent
    /\ sm_state_file \in {SMFileAbsent, SMFileCorrupt, SMFileUndecodable}
    /\ sm_file_at_load = SMFileAbsent

InitDamaged ==
    /\ now = 0
    /\ ticks_per_day = 1
    /\ agent \in {"ca", "sm"}
    /\ DamagedFiles
    /\ CA_Init
    /\ SM_Init

DamagedNext ==
    \/ Tick
    \/ agent = "ca" /\ (CA_Load \/ CA_LoadRaises \/ CA_SetCurrent \/ CA_Generate)
    \/ agent = "sm" /\ (SM_Load \/ SM_LoadRaises \/ SM_Fetch \/ SM_DetectChanges)

SpecDamaged == InitDamaged /\ [][DamagedNext]_vars

\* ------------------------------------------------------------ detect_changes on any list
\* StateManager.detect_changes on a loaded snapshot and a list of claims in which
\* an id may come more than once, in any order
DetectIds == 1..MaxDetectIds

DetectLists ==
    UNION {{[i \in 1..n |-> SM_Claim(ids[i], dl[i], 0, <<>>)] :
               ids \in [1..n -> DetectIds], dl \in [1..n -> {NoneV, DT(0)}]} :
           n \in 0..MaxDetectLen}

DetectSnapshots ==
    {[last_run |-> isoformat(DT(0)),
      claims |-> LET ids == SortedSeq(S)
                 IN  [i \in 1..Len(ids) |->
                         SM_Claim_to_dict(SM_Claim(ids[i], NoneV, 0, <<>>))],
      previous_claims |-> <<>>] : S \in SUBSET DetectIds}

InitDetect ==
    /\ now = 0
    /\ ticks_per_day = 1
    /\ agent = "sm"
    /\ CA_Init
    /\ ca_state_file = FileAbsent
    /\ ca_file_at_load = FileAbsent
    /\ sm_state_file \in {SMFileJson(doc) : doc \in DetectSnapshots}
    /\ sm_file_at_load = sm_state_file
    /\ sm_state = load_state(sm_state_file)
    /\ all_claims \in DetectLists
    /\ sm_pc = "fetched"
    /\ changes = NoChanges
    /\ changes_again = NoChanges
    /\ detect_calls = 0
    /\ sm_error = "none"
    /\ sm_sent = "none"
    /\ hist_sm_expired = [i \in SMClaimIds |-> 0]
    /\ hist_only_runs = TRUE

DetectNext == detect_calls = 0 /\ SM_DetectChanges

SpecDetect == InitDetect /\ [][DetectNext]_vars

\* ------------------------------------------------------------ one run on any input
\* generate_notifications and save_current_state of the class action agent on any
\* claims and payouts, against no snapshot or the snapshot a first run saved, with
\* a clock that reads whole days or half days
InputPayoutIds == 1..MaxInputPayouts

\* payouts in any order, the date of their distribution known or not
InputPayoutLists ==
    UNION {UNION {{[i \in 1..Len(order) |->
                       CA_Payout(order[i], DT(0), dd[order[i]])] :
                      dd \in [S -> {NoneV, DT(MaxTime)}]} : order \in SeqOfSet(S)} :
              S \in SUBSET InputPayoutIds}

InputSnapshots ==
    {save_current_state(StateNone, claims, Map(MockPayout, SortedSeq(S)), <<>>, 0) :
        claims \in {c \in ClaimLists : Len(c) <= 1}, S \in SUBSET InputPayoutIds}

InitInputs ==
    /\ now \in Times
    /\ ticks_per_day \in 1..MaxTicksPerDay
    /\ agent = "ca"
    /\ SM_Init
    /\ sm_state_file = SMFileAbsent
    /\ sm_file_at_load = SMFileAbsent
    /\ ca_state_file \in {FileAbsent} \cup {FileJson(doc) : doc \in InputSnapshots}
    /\ ca_file_at_load = ca_state_file
    /\ previous_state = load_previous_state(ca_state_file)
    /\ current_claims \in ClaimLists
    /\ current_payouts \in InputPayoutLists
    /\ ca_pc = "fetched"
    /\ notifications = <<>>
    /\ ca_error = "none"
    /\ ca_expired = <<>>
    /\ ca_sent = "none"
    /\ ca_saved = "none"
    /\ ca_summary = FALSE
    /\ hist_notified = {}
    /\ hist_expired = [i \in ClaimIds |-> 0]
    /\ hist_expiring = [i \in ClaimIds |-> 0]

InputsNext ==
    \/ CA_Generate
    \/ CA_GenerateRaises
    \/ CA_Save
    \/ CA_Load

SpecInputs == InitInputs /\ [][InputsNext]_vars

\* ------------------------------------------------------------ the methods of either agent
\* one process drives the methods of one of the two agents, as Spec and SpecSM do
ApiNext ==
    \/ Tick
    \/ agent = "ca" /\ (CA_Load \/ CA_SetCurrent \/ CA_Generate \/ CA_GenerateRaises
                        \/ CA_Save)
    \/ agent = "sm" /\ (SM_Load \/ SM_Fetch \/ SM_DetectChanges \/ SM_Save)

SpecApi == InitRun /\ [][ApiNext]_vars

\* ================================================================ properties
\* how many entries of a list of claims carry the id
Count(claims, id) == Cardinality({i \in 1..Len(claims) : claims[i].claim_id = id})

NotifiedLoaded == Range(previous_state.doc.notified_expired_claims)

\* C1: once a claim id has been written to notified_expired_claims, no later run's
\* detect_expired_claims returns that claim, whether it stays in the feed expired,
\* disappears, or is re-added and disappears again.
C1_NotifiedNeverReturned ==
    ca_pc = "generated" =>
        \A id \in hist_notified : id \notin ClaimIdsOf(ca_expired)

\* a notified claim that is back in the snapshot, has expired again and has left
\* the feed: the case that would be reported but for the notified list
C1_Witness ==
    /\ ca_pc = "generated"
    /\ \E i \in 1..Len(previous_state.doc.claims) :
          LET E == PrevClaims(previous_state)[i]
          IN  /\ E.claim_id \in hist_notified
              /\ E.claim_id \notin ClaimIdsOf(current_claims)
              /\ CA_is_expired(E, now)

\* the case of C4 for the stored claim E of the loaded snapshot: E was not expired
\* when the snapshot was saved, its deadline has passed, it is not in the feed
C4_Case(E) ==
    /\ previous_state.loaded
    /\ E.claim_id \notin ClaimIdsOf(current_claims)
    /\ CA_is_expired(E, now)
    /\ ~CA_is_expired(E, previous_state.doc.last_run.v)

C5_NoDeadlineNeverFails ==
    /\ ca_error = "none"
    /\ \A i \in 1..Len(ca_expired) : Truthy(ca_expired[i].filing_deadline)
    /\ \A i \in 1..Len(changes.expired_claims) :
          Truthy(changes.expired_claims[i].expiration_date)
    /\ detect_calls = 1 => sm_error /= "TypeError: fromisoformat"

\* C2: over runs of ActionClaimsAgent.run on one state file, no claim id is in
\* expired_claims in more than one run.
C2_ExpiryNotifiedOnce ==
    hist_only_runs => \A id \in SMClaimIds : hist_sm_expired[id] <= 1

\* C3: every run() of a sequence of runs completes, and leaves a state file that
\* loads and whose claims are the claims fetched in that run.
C3_EveryRunCompletes ==
    (sm_pc = "done" /\ hist_only_runs) =>
        /\ sm_error = "none"
        /\ sm_state_file.kind = "json"
        /\ sm_state_file.doc.claims = Map(SM_Claim_to_dict, all_claims)

PreviousIds == ClaimIdsOf(sm_state.claims)

PayoutIdsOf(payouts) == {payouts[i].payout_id : i \in 1..Len(payouts)}

\* the payout ids reported in new_payouts for the claim
ReportedPayouts(id) ==
    {changes.new_payouts[i].payout.payout_id :
        i \in {j \in 1..Len(changes.new_payouts) :
                  changes.new_payouts[j].claim.claim_id = id}}

\* C6: every payout of a claim that is absent from the previous snapshot is in
\* new_payouts, and for a claim of the previous snapshot new_payouts holds exactly
\* the payouts the snapshot does not have.
C6_NewPayouts ==
    (sm_pc = "detected" /\ detect_calls = 1) =>
        \A i \in 1..Len(all_claims) :
           LET P == all_claims[i]
           IN  IF P.claim_id \in PreviousIds
               THEN LET stored == sm_state.claims[LastIndex(sm_state.claims, P.claim_id)]
                    IN  ReportedPayouts(P.claim_id)
                           = PayoutIdsOf(P.payouts) \ PayoutIdsOf(stored.payouts)
               ELSE ReportedPayouts(P.claim_id) = PayoutIdsOf(P.payouts)

\* C7: a second detect_changes with the same current claims after one load_state
\* returns, and returns the report of the first call.
C7_DetectIdempotent ==
    detect_calls = 2 => (sm_error = "none" /\ changes_again = changes)

\* C8: a call of detect_changes leaves the state file and StateManager.state as
\* they were.
C8_DetectNoSideEffect ==
    [][detect_calls' = detect_calls + 1
          => (sm_state' = sm_state /\ sm_state_file' = sm_state_file)]_vars

\* C9: without a state file every fetched claim is in new_claims of detect_changes,
\* and neither detect_changes nor detect_expired_claims reports an expired claim,
\* whatever the deadlines are.
C9_FirstRun ==
    /\ (sm_state_file.kind = "absent" /\ sm_pc = "detected") =>
          /\ changes.new_claims = all_claims
          /\ changes.expired_claims = <<>>
    /\ (ca_state_file.kind = "absent" /\ ca_pc = "generated") => ca_expired = <<>>

C9_Witness ==
    /\ sm_state_file.kind = "absent" /\ sm_pc = "detected"
    /\ \E i \in 1..Len(all_claims) : SM_is_expired(all_claims[i], now)
    /\ ca_state_file.kind = "absent" /\ ca_pc = "generated"
    /\ \E i \in 1..Len(current_claims) : CA_is_expired(current_claims[i], now)

\* C10: run 1 without snapshot reports no expired claim; run 2, whose snapshot was
\* saved while the deadline of A was ahead and whose feed has A with a deadline in
\* the past, reports A exactly once and saves it as notified; run 3, with A notified
\* and gone from the feed, has no notification for A.
C10_ThreeRuns ==
    ca_pc = "generated" =>
        /\ ~previous_state.loaded => ca_expired = <<>>
        /\ \A i \in 1..Len(previous_state.doc.claims) :
              LET A == PrevClaims(previous_state)[i]
                  k == FirstIndex(current_claims, A.claim_id)
              IN  /\ ( /\ Truthy(A.filing_deadline)
                       /\ ~CA_is_expired(A, previous_state.doc.last_run.v)
                       /\ A.claim_id \notin NotifiedLoaded
                       /\ k /= 0
                       /\ CA_is_expired(current_claims[k], now) )
                        => /\ Count(ca_expired, A.claim_id) = 1
                           /\ A.claim_id \in Range(save_current_state(previous_state,
                                  current_claims, current_payouts, notifications,
                                  now).notified_expired_claims)
                  /\ (A.claim_id \in NotifiedLoaded /\ k = 0)
                        => \A n \in 1..Len(notifications) :
                              notifications[n].claim_id /= A.claim_id

\* C11: when the write of save_current_state fails, the failure reaches the caller
\* of run(): run() ends with an exception and returns no summary.
C11_WriteFailureFatal ==
    ca_saved = "failed" => (~ca_summary /\ ca_error /= "none")

\* C12: a save that fails or is cut short leaves the state file as it was or holding
\* the whole new snapshot; neither state file is ever left truncated.
C12_AtomicWrite ==
    /\ ca_state_file.kind /= "corrupt"
    /\ sm_state_file.kind /= "corrupt"

\* the change report has an entry in one of its three lists
ReportNonEmpty(ch) ==
    ch.new_claims /= <<>> \/ ch.expired_claims /= <<>> \/ ch.new_payouts /= <<>>

\* C13: in a run of ActionClaimsAgent.run a notification is sent if and only if
\* new_claims, expired_claims or new_payouts has an entry, and
\* format_changes_notification gives (None, None) exactly when the three are empty.
C13_NotifyIffNonEmpty ==
    sm_pc = "notified" =>
        /\ (sm_sent /= "skipped") <=> ReportNonEmpty(changes)
        /\ (format_changes_notification(changes).subject = NoneV)
              <=> ~ReportNonEmpty(changes)

\* C14: over the runs on one state file, no claim is returned by
\* detect_expiring_claims in more than one run.
C14_ExpiringOnce ==
    \A id \in ClaimIds : hist_expiring[id] <= 1

\* the current claims and payouts are those of the loaded snapshot: same ids, same
\* deadlines
SameAsSnapshot ==
    /\ previous_state.loaded
    /\ Range(previous_state.doc.claims) = Range(Map(CA_Claim_to_dict, current_claims))
    /\ Range(previous_state.doc.payouts) = Range(Map(CA_Payout_to_dict, current_payouts))

\* C15: in a run whose current claims and payouts are those of the loaded snapshot,
\* generate_notifications returns, and returns the empty list, whatever time has
\* passed since the snapshot was saved.
C15_SameSnapshotSilent ==
    (SameAsSnapshot /\ ca_pc \in {"idle", "generated"}) =>
        /\ ca_error = "none"
        /\ ca_pc = "generated" => notifications = <<>>

\* C16: on a state file that is absent or cannot be parsed, load_state gives the
\* empty state and load_previous_state gives None, neither raises, and the run
\* goes on as a first run.
C16_LoadNeverFails ==
    /\ ca_error /= "UnicodeDecodeError"
    /\ sm_error /= "UnicodeDecodeError"
    /\ (ca_state_file.kind /= "json" /\ ca_pc /= "idle") => previous_state = StateNone
    /\ (sm_state_file.kind /= "json" /\ sm_pc = "loaded") => sm_state = EmptyState

\* the save of this run has written its document
SMSaved == sm_pc = "done" /\ sm_error = "none" /\ sm_state_file.kind = "json"

\* C17: after a save_state(claims) that succeeded, the ids under 'claims' in the
\* state file are the ids of the claims passed in, each once; a claim of the earlier
\* snapshot that is not in the list is gone.
C17_SaveReplaces ==
    SMSaved =>
        /\ ClaimIdsOf(sm_state_file.doc.claims) = ClaimIdsOf(all_claims)
        /\ Len(sm_state_file.doc.claims) = Cardinality(ClaimIdsOf(all_claims))

\* a save that drops a claim of the earlier snapshot
C17_Witness ==
    /\ SMSaved
    /\ \E id \in ClaimIdsOf(sm_state_file.doc.previous_claims) :
          id \notin ClaimIdsOf(all_claims)

\* C18: when fetching the current claims raises, the run ends there, nothing is
\* sent or saved, and the state file is as the load of this run found it.
C18_FetchFailureKeepsFile ==
    /\ ca_error = "fetch raised" =>
          /\ ca_pc = "idle"
          /\ ca_state_file = ca_file_at_load
          /\ ca_saved = "none" /\ ca_sent = "none" /\ ~ca_summary
    /\ sm_error = "fetch raised" =>
          /\ sm_pc = "done"
          /\ sm_state_file = sm_file_at_load
          /\ sm_sent = "none"

\* a fetch that raises in a run that has a snapshot with claims to compare against
C18_Witness ==
    /\ ca_error = "fetch raised"
    /\ ca_state_file.kind = "json"
    /\ ca_state_file.doc.claims /= <<>>

\* C19: when the notifier's send fails, the run still goes on to its save and
\* completes: unless the write itself fails, the state file then holds the claims
\* of this run.
C19_DeliveryFailureSaves ==
    /\ (ca_sent = "failed" /\ ca_pc = "idle") =>
          /\ ca_error = "none" /\ ca_summary /\ ca_saved /= "none"
          /\ ca_saved = "ok" =>
                /\ ca_state_file.kind = "json"
                /\ ca_state_file.doc.claims = Map(CA_Claim_to_dict, current_claims)
    /\ (sm_sent = "failed" /\ sm_pc = "done" /\ sm_error /= "IOError") =>
          /\ sm_error = "none"
          /\ sm_state_file.kind = "json"
          /\ sm_state_file.doc.claims = Map(SM_Claim_to_dict, all_claims)

\* the notified_expired_claims that the load of this run read
LoadedNotified ==
    IF ca_file_at_load.kind = "json"
    THEN ca_file_at_load.doc.notified_expired_claims ELSE <<>>

\* the claim ids of the expired_claim notifications of this run
ExpiredNotified ==
    {notifications[i].claim_id :
        i \in {j \in 1..Len(notifications) : notifications[j].type = "expired_claim"}}

\* C20: after a save that succeeded, the notified_expired_claims in the file is the
\* list loaded at the start of the run followed by the claim ids of the
\* expired_claim notifications of this run, each of them once.
C20_NotifiedSuperset ==
    ca_saved = "ok" =>
        LET saved == ca_state_file.doc.notified_expired_claims
        IN  /\ Len(saved) >= Len(LoadedNotified)
            /\ SubSeq(saved, 1, Len(LoadedNotified)) = LoadedNotified
            /\ Range(saved) = Range(LoadedNotified) \cup ExpiredNotified
            /\ Len(saved) = Len(LoadedNotified)
                              + Cardinality(ExpiredNotified \ Range(LoadedNotified))

\* a save that adds a newly expired claim to a notified list that was not empty
C20_Witness ==
    /\ ca_saved = "ok"
    /\ LoadedNotified /= <<>>
    /\ ExpiredNotified /= {}

\* the ids of a list, each once, in the order in which they first appear
RECURSIVE FirstAppearance(_)
FirstAppearance(ids) ==
    IF ids = <<>> THEN <<>>
    ELSE LET rest == FirstAppearance(SubSeq(ids, 1, Len(ids) - 1))
             last == ids[Len(ids)]
         IN  IF last \in Range(rest) THEN rest ELSE Append(rest, last)

\* C21: the new_claims of detect_changes are current claims, one for each claim id
\* of the current list that is no key of the loaded snapshot, in the order in which
\* these ids first appear in the current list.
C21_NewClaimsInOrder ==
    (sm_pc = "detected" /\ detect_calls = 1) =>
        LET IsNew(id) == id \notin ClaimIdsOf(sm_file_at_load.doc.claims)
        IN  /\ IdSeq(changes.new_claims) = SelectSeq(FirstAppearance(IdSeq(all_claims)), IsNew)
            /\ \A i \in 1..Len(changes.new_claims) :
                  changes.new_claims[i] \in Range(all_claims)

\* two new ids out of order around a known one, the first of them twice in the list
C21_Witness ==
    /\ sm_pc = "detected" /\ detect_calls = 1
    /\ Len(all_claims) = 3
    /\ IdSeq(all_claims) = <<3, 1, 3>>
    /\ ClaimIdsOf(sm_file_at_load.doc.claims) = {2}
    /\ IdSeq(changes.new_claims) = <<3, 1>>

\* the payout ids of the new_payout notifications of this run, in their order
NotifiedPayoutIds ==
    LET IsPayout(notif) == notif.type = "new_payout"
        new_payout == SelectSeq(notifications, IsPayout)
    IN  [i \in 1..Len(new_payout) |-> new_payout[i].payout_id]

\* the payout ids of a list of payouts or of their dicts, in the order of the list
PayoutIdSeq(payouts) == [i \in 1..Len(payouts) |-> payouts[i].payout_id]

\* C22: without a previous state detect_new_payouts returns all the current
\* payouts; with one it returns the current payouts whose payout_id is not among
\* the payouts of the snapshot in the file the run loaded, so that no payout
\* that was saved is reported by the next run.
C22_NewPayouts ==
    ca_pc = "generated" =>
        LET saved == Range(PayoutIdSeq(ca_file_at_load.doc.payouts))
            IsNew(id) == id \notin saved
        IN  /\ ~previous_state.loaded =>
                  NotifiedPayoutIds = PayoutIdSeq(current_payouts)
            /\ previous_state.loaded =>
                  /\ NotifiedPayoutIds = SelectSeq(PayoutIdSeq(current_payouts), IsNew)
                  /\ Range(NotifiedPayoutIds) \cap saved = {}

\* a snapshot with one payout, a feed with that payout after a payout not seen yet
C22_Witness ==
    /\ ca_pc = "generated"
    /\ previous_state.loaded
    /\ PayoutIdSeq(ca_file_at_load.doc.payouts) = <<1>>
    /\ PayoutIdSeq(current_payouts) = <<2, 1>>
    /\ NotifiedPayoutIds = <<2>>

StoredExpired(data, t) ==
    Truthy(data.expiration_date) /\ t > data.expiration_date.v

\* C24: a claim that is in the snapshot the run loaded and in the current list, that
\* was not expired when the snapshot was saved and is expired now, is in the
\* expired_claims of detect_changes, also when its expiration date is the stored one.
C24_ExpiredByTime ==
    (sm_pc = "detected" /\ detect_calls = 1 /\ sm_file_at_load.kind = "json") =>
        \A i \in 1..Len(all_claims), k \in 1..Len(sm_file_at_load.doc.claims) :
            LET stored == sm_file_at_load.doc.claims[k]
                last_run == sm_file_at_load.doc.last_run.v
            IN  (/\ stored.claim_id = all_claims[i].claim_id
                 /\ ~StoredExpired(stored, last_run)
                 /\ SM_is_expired(all_claims[i], now))
                => all_claims[i].claim_id \in ClaimIdsOf(changes.expired_claims)

\* C25: a claim of the current list that is inside the expiring window now, whose
\* copy in the snapshot the run loaded has the same filing deadline and was outside
\* the window when that snapshot was saved, gets an expiring_claim notification.
C25_BecomesExpiring ==
    (ca_pc = "generated" /\ ca_file_at_load.kind = "json") =>
        \A i \in 1..Len(current_claims), k \in 1..Len(ca_file_at_load.doc.claims) :
            LET stored == CA_Claim_from_dict(ca_file_at_load.doc.claims[k])
                last_run == ca_file_at_load.doc.last_run.v
            IN  (/\ stored = current_claims[i]
                 /\ ~CA_is_expiring_soon(stored, expiring_window_days, last_run)
                 /\ CA_is_expiring_soon(current_claims[i], expiring_window_days, now))
                => ExpiringNotif(current_claims[i]) \in Range(notifications)

\* C26: with a snapshot loaded, a claim whose id the snapshot does not have and
\* that is expired when it is fetched is in new_claims and not in expired_claims
\* of detect_changes, and is not returned by detect_expired_claims.
C26_NewAndExpired ==
    /\ (sm_pc = "detected" /\ detect_calls = 1 /\ sm_file_at_load.kind = "json") =>
          \A i \in 1..Len(all_claims) :
              (/\ all_claims[i].claim_id \notin ClaimIdsOf(sm_file_at_load.doc.claims)
               /\ SM_is_expired(all_claims[i], now))
              => /\ all_claims[i] \in Range(changes.new_claims)
                 /\ all_claims[i].claim_id \notin ClaimIdsOf(changes.expired_claims)
    /\ (ca_pc = "generated" /\ ca_file_at_load.kind = "json") =>
          \A i \in 1..Len(current_claims) :
              (/\ current_claims[i].claim_id \notin ClaimIdsOf(ca_file_at_load.doc.claims)
               /\ CA_is_expired(current_claims[i], now))
              => /\ current_claims[i].claim_id \notin ClaimIdsOf(ca_expired)
                 /\ ExpiredNotif(current_claims[i]) \notin Range(notifications)

\* the class action agent holds an expired claim that its snapshot, which has
\* another claim, does not know
C26_Witness ==
    /\ ca_pc = "generated"
    /\ ca_file_at_load.kind = "json"
    /\ ca_file_at_load.doc.claims /= <<>>
    /\ \E i \in 1..Len(current_claims) :
          /\ current_claims[i].claim_id \notin ClaimIdsOf(ca_file_at_load.doc.claims)
          /\ CA_is_expired(current_claims[i], now)

\* C27: in a first run, where every claim that is_expiring_soon is notified, a claim
\* gets an expiring_claim notification exactly when it has a filing deadline that
\* is after now and no more than expiring_window_days days after now.
C27_ExpiringSoon ==
    (ca_pc = "generated" /\ ~previous_state.loaded) =>
        \A i \in 1..Len(current_claims) :
            LET deadline == current_claims[i].filing_deadline
            IN  ExpiringNotif(current_claims[i]) \in Range(notifications)
                <=> (/\ Truthy(deadline)
                     /\ deadline.v > now
                     /\ deadline.v - now <= expiring_window_days * ticks_per_day)

\* save_state was called in this run (it returned or it raised)
SMSaveCalled ==
    /\ sm_pc = "done"
    /\ sm_error \in {"none", "TypeError: not JSON serializable", "IOError"}

\* C28: after the save_state of a run, 'previous_claims' of the manager's state is
\* the 'claims' map of the snapshot that the run loaded, and 'claims' holds the
\* dicts of the claims passed in and nothing else.
C28_OneGeneration ==
    SMSaveCalled =>
        /\ sm_state.previous_claims = load_state(sm_file_at_load).claims
        /\ sm_state.claims = Map(SM_Claim_to_dict, all_claims)

\* C29: in a run of the class action agent the current claims hold no claim that
\* is expired, no claim in a snapshot written by run() was expired when that
\* snapshot was saved, and every claim returned as expired is a claim of the loaded
\* snapshot that is expired and missing from the current claims.
C29_NoExpiredFetched ==
    agent = "ca" =>
        /\ ca_pc \in {"fetched", "generated", "sent"} =>
              \A i \in 1..Len(current_claims) : ~CA_is_expired(current_claims[i], now)
        /\ ca_state_file.kind = "json" =>
              \A k \in 1..Len(ca_state_file.doc.claims) :
                  ~CA_is_expired(CA_Claim_from_dict(ca_state_file.doc.claims[k]),
                                 ca_state_file.doc.last_run.v)
        /\ ca_pc \in {"generated", "sent"} =>
              \A i \in 1..Len(ca_expired) :
                  /\ ca_expired[i] \in Range(PrevClaims(previous_state))
                  /\ ca_expired[i].claim_id \notin ClaimIdsOf(current_claims)
                  /\ CA_is_expired(ca_expired[i], now)

\* a run that holds a claim and reports another one, gone from the feed, as expired
C29_Witness ==
    /\ agent = "ca"
    /\ ca_pc = "generated"
    /\ current_claims /= <<>>
    /\ ca_expired /= <<>>

\* C30: in a run that found its state file missing or not parseable, no claim is
\* returned or notified as expired, and the snapshot the run saves has an empty
\* notified_expired_claims, whatever ids earlier runs had written there.
C30_DamagedForgets ==
    (agent = "ca" /\ ca_file_at_load.kind /= "json") =>
        /\ ca_pc \in {"generated", "sent"} => ca_expired = <<>> /\ ExpiredNotified = {}
        /\ ca_saved = "ok" =>
              /\ ca_state_file.kind = "json"
              /\ ca_state_file.doc.notified_expired_claims = <<>>

\* a snapshot saved by a run that loaded a damaged file, after an earlier run had
\* written an id to notified_expired_claims
C30_Witness ==
    /\ agent = "ca"
    /\ ca_file_at_load.kind = "corrupt"
    /\ ca_saved = "ok"
    /\ hist_notified /= {}
    /\ ca_state_file.doc.notified_expired_claims = <<>>
====
